---- MODULE Spec2Model ----
(***************************************************************************)
(* The service worker of Bundesliga Web (src/performance.js, lines 429 to  *)
(* 812): install and activate life cycle, the fetch listener, the three    *)
(* caching strategies and the offline fallback, over the origin's          *)
(* CacheStorage.                                                           *)
(*                                                                         *)
(* Strings are sequences of tokens, so that endsWith, startsWith and       *)
(* includes are computed on them as the code computes them on characters.  *)
(* Every await of the code is a step boundary: a task of the bag `tasks`   *)
(* is one suspended async function (or an un-awaited cache.put, or the     *)
(* detached fetch of staleWhileRevalidate) and each action runs one task   *)
(* from one await to the next.                                             *)
(*                                                                         *)
(* The worker's message listener and, of the page's script                 *)
(* (src/unnamed/part_000), the details modal with its timers are modelled  *)
(* beside it, each under a specification of its own.                       *)
(***************************************************************************)
EXTENDS Bags, FiniteSets, Integers, Sequences, TLC

VARIABLES
    lifecycle,      \* state of the worker: installing, installed, activating, activated, redundant
    installStep,    \* position inside the install handler's promise chain
    addAllOutcome,  \* outcome of cache.addAll(STATIC_ASSETS): none, fulfilled, rejected
    installPromise, \* the promise given to the install event's waitUntil
    skipWaitingFlag,\* self.skipWaiting() has been called
    claimed,        \* self.clients.claim() has been called
    toDelete,       \* activate: the caches.delete calls still outstanding
    caches,         \* CacheStorage: sequence (creation order) of [name, entries]
    online,         \* the network is reachable (fetch resolves) or not (fetch rejects)
    tasks,          \* bag of tasks: suspended handlers, resolved handlers, detached work
    events,         \* number of fetch events dispatched so far
    probe,          \* classifier check: the request under test
    dispatched,     \* classifier check: the strategy handleRequest chose for probe
    ports,          \* message events handled so far: data type, port, messages posted on the port
    modals,         \* the page's modals in creation order
    timers,         \* the page's pending setTimeout callbacks in scheduling order
    activeElement   \* the page's focused element

vars == <<lifecycle, installStep, addAllOutcome, installPromise, skipWaitingFlag,
          claimed, toDelete, caches, online, tasks, events,
          probe, dispatched, ports, modals, timers, activeElement>>

lifecycleVars == <<lifecycle, installStep, addAllOutcome, installPromise,
                   skipWaitingFlag, claimed, toDelete>>
probeVars == <<probe, dispatched>>
messageVars == <<ports>>
pageVars == <<modals, timers, activeElement>>

-----------------------------------------------------------------------------
(* Bounds *)

\* number of fetch events dispatched to the worker
MaxEvents == 2

\* response bodies the network can serve for one URL (successive deployments)
Bodies == {<<"v1">>, <<"v2">>}

\* statuses a resolved network fetch can carry
Statuses == {200, 404}

\* number of messages the page sends to the worker
MaxMessages == 2

\* number of modals the page creates
MaxModals == 2

\* number of closeModal calls
MaxCloses == 3

-----------------------------------------------------------------------------
(* String operations of the code, on token sequences *)

\* String.prototype.endsWith
EndsWith(s, t) ==
    /\ Len(s) >= Len(t)
    /\ SubSeq(s, Len(s) - Len(t) + 1, Len(s)) = t

\* String.prototype.startsWith
StartsWith(s, t) ==
    /\ Len(s) >= Len(t)
    /\ SubSeq(s, 1, Len(t)) = t

\* String.prototype.includes
Includes(s, t) ==
    \E i \in 1..(Len(s) + 1) :
        /\ i + Len(t) - 1 <= Len(s)
        /\ SubSeq(s, i, i + Len(t) - 1) = t

-----------------------------------------------------------------------------
(* Constants of the worker *)

CACHE_NAME == "bundesliga-web-v1"
STATIC_CACHE == "bundesliga-static-v1"
DYNAMIC_CACHE == "bundesliga-dynamic-v1"

Crest(team) == <<"/", "imagenes", "/", team, ".svg">>

\* a manifest of 20 paths: one root document, one stylesheet, two scripts and
\* 16 crests
STATIC_ASSETS_Twenty ==
    << <<"/">>,
       <<"/", "styles", ".css">>,
       <<"/", "script", ".js">>,
       <<"/", "performance", ".js">>,
       Crest("bayern"), Crest("dortmund"), Crest("leipzig"), Crest("leverkusen"),
       Crest("frankfurt"), Crest("gladbach"), Crest("wolfsburg"), Crest("freiburg"),
       Crest("hoffenheim"), Crest("augsburg"), Crest("nuremberg"), Crest("hamburgo"),
       Crest("schalke"), Crest("stuttgart"), Crest("bremen"),
       Crest("kaiserslautern") >>

STATIC_ASSETS ==
    << <<"/">>,
       <<"/", "index", ".html">>,
       <<"/", "styles", ".css">>,
       <<"/", "script", ".js">>,
       <<"/", "performance", ".js">>,
       Crest("bayern"), Crest("dortmund"), Crest("leipzig"), Crest("leverkusen"),
       Crest("frankfurt"), Crest("gladbach"), Crest("wolfsburg"), Crest("freiburg"),
       Crest("hoffenheim"), Crest("augsburg"), Crest("nuremberg"), Crest("hamburgo"),
       Crest("schalke"), Crest("stuttgart"), Crest("bremen"),
       Crest("kaiserslautern"), Crest("colonia") >>

\* self.location: the origin the worker is served from
SelfProtocol == <<"http", "s", ":">>
SelfHostname == <<"bundesliga", ".", "example">>

\* a URL string of the code resolved against self.location ('/index.html')
Resolve(path) ==
    [protocol |-> SelfProtocol, hostname |-> SelfHostname,
     pathname |-> path, search |-> <<>>]

-----------------------------------------------------------------------------
(* Requests and responses *)

Request(method, protocol, hostname, pathname, search, accept) ==
    [method |-> method,
     url |-> [protocol |-> protocol, hostname |-> hostname,
              pathname |-> pathname, search |-> search],
     accept |-> accept]

AcceptHtml == <<"text/html", ",", "*/*">>
AcceptImage == <<"image/*">>
AcceptAny == <<"*/*">>

IndexRequest ==
    Request("GET", SelfProtocol, SelfHostname, <<"/", "index", ".html">>, <<>>, AcceptHtml)
LogoRequest ==
    Request("GET", SelfProtocol, SelfHostname, <<"/", "imagenes", "/", "logo", ".png">>,
            <<>>, AcceptImage)
StandingsRequest ==
    Request("GET", SelfProtocol, SelfHostname, <<"/", "api", "/", "standings">>,
            <<"?", "timestamp", "=", "1">>, AcceptAny)
FontRequest ==
    Request("GET", SelfProtocol, <<"fonts", ".", "gstatic", ".", "com">>,
            <<"/", "foo">>, <<>>, AcceptAny)
UnknownRequest ==
    Request("GET", SelfProtocol, SelfHostname, <<"/", "unknown", "/", "path">>,
            <<>>, AcceptHtml)
PostRequest ==
    Request("POST", SelfProtocol, SelfHostname, <<"/", "api", "/", "standings">>,
            <<>>, AcceptAny)
ExtensionRequest ==
    Request("GET", <<"chrome-extension", ":">>, <<"abcdefgh">>,
            <<"/", "popup", ".html">>, <<>>, AcceptHtml)

\* the requests the page issues while the worker controls it
Requests ==
    {IndexRequest, LogoRequest, StandingsRequest, FontRequest, UnknownRequest,
     PostRequest, ExtensionRequest}

\* the key a Cache stores a request under: its URL
Key(request) == request.url

\* no value: the undefined of a cache miss, of a promise not yet settled, and of
\* the callback of staleWhileRevalidate's catch
Undefined == [status |-> 0, contentType |-> "undefined", body |-> <<>>]

\* a response of the network: the server chooses status and body
NetworkResponse(status, body) ==
    [status |-> status, contentType |-> "as-served", body |-> body]

-----------------------------------------------------------------------------
(* CacheStorage: an ordered list of named caches, each a map from URL to response *)

EmptyEntries == [k \in {} |-> Undefined]

CacheIndex(cs, name) ==
    IF \E i \in 1..Len(cs) : cs[i].name = name
    THEN CHOOSE i \in 1..Len(cs) : cs[i].name = name
    ELSE 0

\* caches.has(name)
CachesHas(cs, name) == CacheIndex(cs, name) # 0

\* caches.keys()
CachesKeys(cs) == {cs[i].name : i \in 1..Len(cs)}

\* the entries of the cache called name (empty when there is none)
Entries(cs, name) ==
    IF CachesHas(cs, name) THEN cs[CacheIndex(cs, name)].entries ELSE EmptyEntries

\* caches.open(name): the cache is created, last in the list, when it does not exist
CachesOpen(cs, name) ==
    IF CachesHas(cs, name) THEN cs
    ELSE Append(cs, [name |-> name, entries |-> EmptyEntries])

\* caches.delete(name)
CachesDelete(cs, name) ==
    LET keep(c) == c.name # name IN SelectSeq(cs, keep)

\* cache.match(request) on one cache
CacheMatch(cs, name, key) ==
    LET e == Entries(cs, name) IN
    IF key \in DOMAIN e THEN e[key] ELSE Undefined

\* caches.match(request): the first cache, in creation order, that holds the key
CachesMatch(cs, key) ==
    LET hits == {i \in 1..Len(cs) : key \in DOMAIN cs[i].entries} IN
    IF hits = {} THEN Undefined
    ELSE LET first == CHOOSE i \in hits : \A j \in hits : i <= j
         IN cs[first].entries[key]

\* cache.put(request, response) on the cache called name, once it completes
CachePut(cs, name, key, response) ==
    LET i == CacheIndex(cs, name) IN
    IF i = 0 THEN cs
    ELSE [cs EXCEPT ![i].entries =
             [k \in DOMAIN cs[i].entries \cup {key} |->
                 IF k = key THEN response ELSE cs[i].entries[k]]]

-----------------------------------------------------------------------------
(* The request classifier *)

isStaticAsset(request) ==
    LET pathname == request.url.pathname IN
    \/ EndsWith(pathname, <<".html">>)
    \/ EndsWith(pathname, <<".css">>)
    \/ EndsWith(pathname, <<".js">>)
    \/ EndsWith(pathname, <<".svg">>)
    \/ EndsWith(pathname, <<".png">>)
    \/ EndsWith(pathname, <<".jpg">>)
    \/ EndsWith(pathname, <<".jpeg">>)
    \/ EndsWith(pathname, <<".webp">>)
    \/ pathname = <<"/">>

isDynamicContent(request) ==
    \/ Includes(request.url.pathname, <<"/", "api", "/">>)
    \/ Includes(request.url.pathname, <<"/", "data", "/">>)
    \/ Includes(request.url.search, <<"timestamp">>)
    \/ Includes(request.url.search, <<"cache-bust">>)

isExternalResource(request) ==
    \/ Includes(request.url.hostname, <<"fonts", ".", "googleapis", ".", "com">>)
    \/ Includes(request.url.hostname, <<"fonts", ".", "gstatic", ".", "com">>)
    \/ Includes(request.url.hostname, <<"cdn", ".">>)
    \/ request.url.hostname # SelfHostname

\* handleRequest with the first two tests in the other order
handleRequest_DynamicFirst(request) ==
    IF isDynamicContent(request) THEN "networkFirst"
    ELSE IF isStaticAsset(request) THEN "cacheFirst"
    ELSE IF isExternalResource(request) THEN "staleWhileRevalidate"
    ELSE "networkFirst"

\* the strategy handleRequest hands the request to
handleRequest(request) ==
    IF isStaticAsset(request) THEN "cacheFirst"
    ELSE IF isDynamicContent(request) THEN "networkFirst"
    ELSE IF isExternalResource(request) THEN "staleWhileRevalidate"
    ELSE "networkFirst"

\* Handled without the test of the method
Handled_AnyMethod(request) ==
    StartsWith(request.url.protocol, <<"http">>)

\* the fetch listener's filter: only GET requests over http(s) are answered
Handled(request) ==
    /\ request.method = "GET"
    /\ StartsWith(request.url.protocol, <<"http">>)

-----------------------------------------------------------------------------
(* The offline fallback's synthesized responses *)

OfflinePage ==
    [status |-> 200, contentType |-> "text/html",
     body |-> <<"<!DOCTYPE html>", "<title>", "Offline - Bundesliga Web", "</title>",
                "<h1>", "Sin conexión", "</h1>",
                "<p>", "No hay conexión a internet. Por favor, verifica tu conexión e intenta nuevamente.", "</p>",
                "<button onclick=\"window.location.reload()\">", "Reintentar", "</button>">>]

PlaceholderImage ==
    [status |-> 200, contentType |-> "image/svg+xml",
     body |-> <<"<svg width=\"100\" height=\"100\">", "<text>", "Imagen", "</text>",
                "<text>", "no disponible", "</text>", "</svg>">>]

Unavailable ==
    [status |-> 503, contentType |-> "text/plain;charset=UTF-8",
     body |-> <<"Recurso no disponible offline">>]

-----------------------------------------------------------------------------
(* Tasks *)

NoRequest == Request("", <<>>, <<>>, <<>>, <<>>, <<>>)

\* a suspended async function: where it waits, its request, the cache handle it
\* holds and the response it carries
Task(pc, request, cache, response) ==
    [pc |-> pc, request |-> request, cache |-> cache, response |-> response]

Running == BagToSet(tasks)

\* the task t goes on as the task next
Continue(t, next) ==
    tasks' = (tasks (-) SetToBag({t})) (+) SetToBag({next})

\* the handler t returns response: the promise given to respondWith is resolved
\* with it; `left` are the detached tasks the handler leaves behind
Return(t, response, left) ==
    tasks' = (tasks (-) SetToBag({t}))
                (+) SetToBag({Task("resolved", t.request, "", response)} \cup left)

\* getOfflineFallback with every image suffix of isStaticAsset taken for an image
getOfflineFallback_AnyImage(t) ==
    LET pathname == t.request.url.pathname IN
    IF Includes(t.request.accept, <<"text/html">>)
    THEN Continue(t, Task("fb_match", t.request, "", Undefined))
    ELSE IF \E suffix \in {".svg", ".png", ".jpg", ".jpeg", ".webp"} :
                EndsWith(pathname, <<suffix>>)
         THEN Return(t, PlaceholderImage, {})
         ELSE Return(t, Unavailable, {})

\* getOfflineFallback up to its first await
getOfflineFallback(t) ==
    LET pathname == t.request.url.pathname IN
    IF Includes(t.request.accept, <<"text/html">>)
    THEN Continue(t, Task("fb_match", t.request, "", Undefined))
    ELSE IF \/ EndsWith(pathname, <<".svg">>)
            \/ EndsWith(pathname, <<".png">>)
            \/ EndsWith(pathname, <<".jpg">>)
         THEN Return(t, PlaceholderImage, {})
         ELSE Return(t, Unavailable, {})

-----------------------------------------------------------------------------
(* Initial state *)

OldEntries == [k \in {Resolve(<<"/", "index", ".html">>)} |-> NetworkResponse(200, <<"v1">>)]
OldDynamicEntries == [k \in {Key(StandingsRequest)} |-> NetworkResponse(200, <<"v1">>)]

OldVersion == [name |-> "bundesliga-static-v0", entries |-> OldEntries]
Foreign == [name |-> "third-party", entries |-> EmptyEntries]
OldStatic == [name |-> STATIC_CACHE, entries |-> OldEntries]
OldDynamic == [name |-> DYNAMIC_CACHE, entries |-> OldDynamicEntries]

\* the caches of the origin when the worker is installed: none, those of an
\* earlier version, those of an earlier installation of this version, others
InitialCaches ==
    { <<>>,
      <<OldVersion>>,
      <<OldVersion, Foreign>>,
      <<OldStatic, OldDynamic>>,
      <<OldVersion, OldStatic, OldDynamic, Foreign>> }

InitWorker ==
    /\ lifecycle = "installing"
    /\ installStep = "open"
    /\ addAllOutcome = "none"
    /\ installPromise = "pending"
    /\ skipWaitingFlag = FALSE
    /\ claimed = FALSE
    /\ toDelete = {}
    /\ caches \in InitialCaches
    /\ online \in BOOLEAN
    /\ tasks = EmptyBag
    /\ events = 0

\* the element that has the focus: the document's body, the card whose details
\* are shown, or the close button of a modal
Element(kind, modal) == [kind |-> kind, modal |-> modal]
Body == Element("body", 0)
Card == Element("card", 0)

\* no message was sent to the worker, and the page is loaded and shows no modal
InitPage ==
    /\ ports = <<>>
    /\ modals = <<>>
    /\ timers = <<>>
    /\ activeElement = Body

Init ==
    /\ InitWorker
    /\ probe = NoRequest
    /\ dispatched = "none"
    /\ InitPage

-----------------------------------------------------------------------------
(* Install *)

\* caches.open(STATIC_CACHE)
InstallOpen ==
    /\ lifecycle = "installing"
    /\ installStep = "open"
    /\ caches' = CachesOpen(caches, STATIC_CACHE)
    /\ installStep' = "addAll"
    /\ UNCHANGED <<lifecycle, addAllOutcome, installPromise, skipWaitingFlag, claimed,
                   toDelete, online, tasks, events, probeVars,
                   messageVars, pageVars>>

\* the manifest stored in the static cache, every entry fetched with body `body`
AddAll(cs, body) ==
    LET i == CacheIndex(cs, STATIC_CACHE)
        keys == {Resolve(STATIC_ASSETS[n]) : n \in 1..Len(STATIC_ASSETS)}
    IN  [cs EXCEPT ![i].entries =
            [k \in DOMAIN cs[i].entries \cup keys |->
                IF k \in keys THEN NetworkResponse(200, body) ELSE cs[i].entries[k]]]

\* cache.addAll(STATIC_ASSETS): every entry is fetched and stored, or, when the
\* fetch of one entry fails, nothing is stored and the promise rejects
InstallAddAll ==
    /\ lifecycle = "installing"
    /\ installStep = "addAll"
    /\ \/ /\ online
          /\ \E body \in Bodies : caches' = AddAll(caches, body)
          /\ addAllOutcome' = "fulfilled"
       \/ /\ addAllOutcome' = "rejected"
          /\ UNCHANGED caches
    /\ installStep' = "chain"
    /\ UNCHANGED <<lifecycle, installPromise, skipWaitingFlag, claimed,
                   toDelete, online, tasks, events, probeVars,
                   messageVars, pageVars>>

\* .then(() => self.skipWaiting())
InstallThen ==
    /\ installStep = "chain"
    /\ addAllOutcome = "fulfilled"
    /\ skipWaitingFlag' = TRUE
    /\ installPromise' = "fulfilled"
    /\ installStep' = "done"
    /\ UNCHANGED <<lifecycle, addAllOutcome, claimed, toDelete, caches, online,
                   tasks, events, probeVars,
                   messageVars, pageVars>>

\* .catch((error) => console.error(...)): the handler returns, so the promise
\* of the chain is fulfilled
InstallCatch ==
    /\ installStep = "chain"
    /\ addAllOutcome = "rejected"
    /\ installPromise' = "fulfilled"
    /\ installStep' = "done"
    /\ UNCHANGED <<lifecycle, addAllOutcome, skipWaitingFlag, claimed, toDelete,
                   caches, online, tasks, events, probeVars,
                   messageVars, pageVars>>

\* event.waitUntil: the worker is installed when the promise is fulfilled and
\* discarded when it rejects
InstallSettled ==
    /\ lifecycle = "installing"
    /\ installPromise # "pending"
    /\ lifecycle' = IF installPromise = "rejected" THEN "redundant" ELSE "installed"
    /\ UNCHANGED <<installStep, addAllOutcome, installPromise, skipWaitingFlag,
                   claimed, toDelete, caches, online, tasks, events,
                   probeVars,
                   messageVars, pageVars>>

-----------------------------------------------------------------------------
(* Activate *)

\* ActivateKeys with || for &&: every cache name passes the test
ActivateKeys_Or ==
    /\ lifecycle = "installed"
    /\ lifecycle' = "activating"
    /\ toDelete' = {cacheName \in CachesKeys(caches) :
                       cacheName # STATIC_CACHE \/ cacheName # DYNAMIC_CACHE}
    /\ UNCHANGED <<installStep, addAllOutcome, installPromise, skipWaitingFlag,
                   claimed, caches, online, tasks, events, probeVars,
                   messageVars, pageVars>>

\* caches.keys() and the caches.delete calls the map issues
ActivateKeys ==
    /\ lifecycle = "installed"
    /\ lifecycle' = "activating"
    /\ toDelete' = {cacheName \in CachesKeys(caches) :
                       cacheName # STATIC_CACHE /\ cacheName # DYNAMIC_CACHE}
    /\ UNCHANGED <<installStep, addAllOutcome, installPromise, skipWaitingFlag,
                   claimed, caches, online, tasks, events, probeVars,
                   messageVars, pageVars>>

\* one caches.delete(cacheName) completes
ActivateDelete(cacheName) ==
    /\ lifecycle = "activating"
    /\ cacheName \in toDelete
    /\ caches' = CachesDelete(caches, cacheName)
    /\ toDelete' = toDelete \ {cacheName}
    /\ UNCHANGED <<lifecycle, installStep, addAllOutcome, installPromise,
                   skipWaitingFlag, claimed, online, tasks, events,
                   probeVars,
                   messageVars, pageVars>>

\* Promise.all settles: self.clients.claim()
ActivateClaim ==
    /\ lifecycle = "activating"
    /\ toDelete = {}
    /\ claimed' = TRUE
    /\ lifecycle' = "activated"
    /\ UNCHANGED <<installStep, addAllOutcome, installPromise, skipWaitingFlag,
                   toDelete, caches, online, tasks, events, probeVars,
                   messageVars, pageVars>>

-----------------------------------------------------------------------------
(* The fetch listener *)

\* the task handleRequest(request) is suspended as at its first await
Start(request) ==
    LET strategy == handleRequest(request) IN
    IF strategy = "cacheFirst" THEN Task("cf_match", request, "", Undefined)
    ELSE IF strategy = "networkFirst" THEN Task("nf_fetch", request, "", Undefined)
    ELSE Task("swr_open", request, "", Undefined)

\* the fetch listener: respondWith(handleRequest(request)) for a GET request over
\* http(s); for any other request the listener returns and the browser handles
\* the request itself
FetchEvent(request) ==
    /\ lifecycle = "activated"
    /\ events < MaxEvents
    /\ events' = events + 1
    /\ IF Handled(request)
       THEN tasks' = tasks (+) SetToBag({Start(request)})
       ELSE tasks' = tasks (+) SetToBag({Task("passthrough", request, "", Undefined)})
    /\ UNCHANGED <<lifecycleVars, caches, online, probeVars,
                   messageVars, pageVars>>

-----------------------------------------------------------------------------
(* Cache First *)

\* CacheFirstMatch with the stored response ignored: the network is always asked
CacheFirstMatch_AlwaysNetwork(t) ==
    /\ t.pc = "cf_match"
    /\ Continue(t, Task("cf_fetch", t.request, "", Undefined))
    /\ UNCHANGED <<lifecycleVars, caches, online, events, probeVars,
                   messageVars, pageVars>>

\* CacheFirstMatch refreshing the entry on a hit: a write of a fresh response
\* is started beside the return
CacheFirstMatch_Refresh(t) ==
    /\ t.pc = "cf_match"
    /\ LET cachedResponse == CachesMatch(caches, Key(t.request)) IN
       IF cachedResponse # Undefined
       THEN \E body \in Bodies :
               Return(t, cachedResponse,
                      {Task("put", t.request, STATIC_CACHE, NetworkResponse(200, body))})
       ELSE Continue(t, Task("cf_fetch", t.request, "", Undefined))
    /\ UNCHANGED <<lifecycleVars, caches, online, events, probeVars,
                   messageVars, pageVars>>

\* const cachedResponse = await caches.match(request)
CacheFirstMatch(t) ==
    /\ t.pc = "cf_match"
    /\ LET cachedResponse == CachesMatch(caches, Key(t.request)) IN
       IF cachedResponse # Undefined
       THEN Return(t, cachedResponse, {})
       ELSE Continue(t, Task("cf_fetch", t.request, "", Undefined))
    /\ UNCHANGED <<lifecycleVars, caches, online, events, probeVars,
                   messageVars, pageVars>>

\* CacheFirstFetch without the status test: every resolved response is stored
CacheFirstFetch_StoreAny(t) ==
    /\ t.pc = "cf_fetch"
    /\ \/ /\ online
          /\ \E status \in Statuses, body \in Bodies :
                Continue(t, Task("cf_open", t.request, "", NetworkResponse(status, body)))
       \/ /\ ~online
          /\ getOfflineFallback(t)
    /\ UNCHANGED <<lifecycleVars, caches, online, events, probeVars,
                   messageVars, pageVars>>

\* const networkResponse = await fetch(request), and the catch block
CacheFirstFetch(t) ==
    /\ t.pc = "cf_fetch"
    /\ \/ /\ online
          /\ \E status \in Statuses, body \in Bodies :
                LET networkResponse == NetworkResponse(status, body) IN
                IF networkResponse.status = 200
                THEN Continue(t, Task("cf_open", t.request, "", networkResponse))
                ELSE Return(t, networkResponse, {})
       \/ /\ ~online
          /\ getOfflineFallback(t)
    /\ UNCHANGED <<lifecycleVars, caches, online, events, probeVars,
                   messageVars, pageVars>>

\* CacheFirstOpen writing to the dynamic cache
CacheFirstOpen_Dynamic(t) ==
    /\ t.pc = "cf_open"
    /\ caches' = CachesOpen(caches, DYNAMIC_CACHE)
    /\ Return(t, t.response, {Task("put", t.request, DYNAMIC_CACHE, t.response)})
    /\ UNCHANGED <<lifecycleVars, online, events, probeVars,
                   messageVars, pageVars>>

\* const cache = await caches.open(STATIC_CACHE); cache.put(...); return networkResponse
CacheFirstOpen(t) ==
    /\ t.pc = "cf_open"
    /\ caches' = CachesOpen(caches, STATIC_CACHE)
    /\ Return(t, t.response, {Task("put", t.request, STATIC_CACHE, t.response)})
    /\ UNCHANGED <<lifecycleVars, online, events, probeVars,
                   messageVars, pageVars>>

-----------------------------------------------------------------------------
(* Network First *)

\* const networkResponse = await fetch(request), and the start of the catch block
NetworkFirstFetch(t) ==
    /\ t.pc = "nf_fetch"
    /\ \/ /\ online
          /\ \E status \in Statuses, body \in Bodies :
                LET networkResponse == NetworkResponse(status, body) IN
                IF networkResponse.status = 200
                THEN Continue(t, Task("nf_open", t.request, "", networkResponse))
                ELSE Return(t, networkResponse, {})
       \/ /\ ~online
          /\ Continue(t, Task("nf_match", t.request, "", Undefined))
    /\ UNCHANGED <<lifecycleVars, caches, online, events, probeVars,
                   messageVars, pageVars>>

\* NetworkFirstOpen without the cache.put: the response is returned, not stored
NetworkFirstOpen_NoPut(t) ==
    /\ t.pc = "nf_open"
    /\ caches' = CachesOpen(caches, DYNAMIC_CACHE)
    /\ Return(t, t.response, {})
    /\ UNCHANGED <<lifecycleVars, online, events, probeVars,
                   messageVars, pageVars>>

\* const cache = await caches.open(DYNAMIC_CACHE); cache.put(...); return networkResponse
NetworkFirstOpen(t) ==
    /\ t.pc = "nf_open"
    /\ caches' = CachesOpen(caches, DYNAMIC_CACHE)
    /\ Return(t, t.response, {Task("put", t.request, DYNAMIC_CACHE, t.response)})
    /\ UNCHANGED <<lifecycleVars, online, events, probeVars,
                   messageVars, pageVars>>

\* NetworkFirstMatch with the lookup left out: the catch block goes to the fallback
NetworkFirstMatch_NoCache(t) ==
    /\ t.pc = "nf_match"
    /\ getOfflineFallback(t)
    /\ UNCHANGED <<lifecycleVars, caches, online, events, probeVars,
                   messageVars, pageVars>>

\* catch: const cachedResponse = await caches.match(request)
NetworkFirstMatch(t) ==
    /\ t.pc = "nf_match"
    /\ LET cachedResponse == CachesMatch(caches, Key(t.request)) IN
       IF cachedResponse # Undefined
       THEN Return(t, cachedResponse, {})
       ELSE getOfflineFallback(t)
    /\ UNCHANGED <<lifecycleVars, caches, online, events, probeVars,
                   messageVars, pageVars>>

-----------------------------------------------------------------------------
(* Stale While Revalidate *)

\* const cache = await caches.open(DYNAMIC_CACHE)
StaleOpen(t) ==
    /\ t.pc = "swr_open"
    /\ caches' = CachesOpen(caches, DYNAMIC_CACHE)
    /\ Continue(t, Task("swr_match", t.request, DYNAMIC_CACHE, Undefined))
    /\ UNCHANGED <<lifecycleVars, online, events, probeVars,
                   messageVars, pageVars>>

\* StaleMatch with `return await fetchPromise || cachedResponse`: the handler
\* waits for the network although a stored response exists
StaleMatch_AwaitsNetwork(t) ==
    /\ t.pc = "swr_match"
    /\ Continue(t, Task("swr_wait", t.request, t.cache, Undefined))
    /\ UNCHANGED <<lifecycleVars, caches, online, events, probeVars,
                   messageVars, pageVars>>

\* const cachedResponse = await cache.match(request); the fetch is started;
\* return cachedResponse || fetchPromise
StaleMatch(t) ==
    /\ t.pc = "swr_match"
    /\ LET cachedResponse == CacheMatch(caches, t.cache, Key(t.request)) IN
       IF cachedResponse # Undefined
       THEN Return(t, cachedResponse, {Task("swr_detached", t.request, t.cache, Undefined)})
       ELSE Continue(t, Task("swr_wait", t.request, t.cache, Undefined))
    /\ UNCHANGED <<lifecycleVars, caches, online, events, probeVars,
                   messageVars, pageVars>>

\* StaleFetch without the cache.put of the then callback
StaleFetch_NoPut(t) ==
    /\ t.pc \in {"swr_detached", "swr_wait"}
    /\ \/ /\ online
          /\ \E status \in Statuses, body \in Bodies :
                IF t.pc = "swr_wait"
                THEN Return(t, NetworkResponse(status, body), {})
                ELSE tasks' = tasks (-) SetToBag({t})
       \/ /\ ~online
          /\ IF t.pc = "swr_wait"
             THEN Return(t, Undefined, {})
             ELSE tasks' = tasks (-) SetToBag({t})
    /\ UNCHANGED <<lifecycleVars, caches, online, events, probeVars,
                   messageVars, pageVars>>

\* fetchPromise settles: the then callback, or the catch callback, whose value
\* is undefined; a handler that returned fetchPromise settles with it
StaleFetch(t) ==
    /\ t.pc \in {"swr_detached", "swr_wait"}
    /\ \/ /\ online
          /\ \E status \in Statuses, body \in Bodies :
                LET networkResponse == NetworkResponse(status, body)
                    put == IF networkResponse.status = 200
                           THEN {Task("put", t.request, t.cache, networkResponse)}
                           ELSE {}
                IN  IF t.pc = "swr_wait"
                    THEN Return(t, networkResponse, put)
                    ELSE tasks' = (tasks (-) SetToBag({t})) (+) SetToBag(put)
       \/ /\ ~online
          /\ IF t.pc = "swr_wait"
             THEN Return(t, Undefined, {})
             ELSE tasks' = tasks (-) SetToBag({t})
    /\ UNCHANGED <<lifecycleVars, caches, online, events, probeVars,
                   messageVars, pageVars>>

-----------------------------------------------------------------------------
(* Offline fallback, un-awaited writes, the network *)

\* OfflineFallbackMatch with the cached root page ignored
OfflineFallbackMatch_NoCache(t) ==
    /\ t.pc = "fb_match"
    /\ Return(t, OfflinePage, {})
    /\ UNCHANGED <<lifecycleVars, caches, online, events, probeVars,
                   messageVars, pageVars>>

\* getOfflineFallback: const cachedPage = await caches.match('/index.html')
OfflineFallbackMatch(t) ==
    /\ t.pc = "fb_match"
    /\ LET cachedPage == CachesMatch(caches, Resolve(<<"/", "index", ".html">>)) IN
       IF cachedPage # Undefined
       THEN Return(t, cachedPage, {})
       ELSE Return(t, OfflinePage, {})
    /\ UNCHANGED <<lifecycleVars, caches, online, events, probeVars,
                   messageVars, pageVars>>

\* PutComplete keeping an entry that exists: the first write wins
PutComplete_FirstWins(t) ==
    /\ t.pc = "put"
    /\ caches' = IF CacheMatch(caches, t.cache, Key(t.request)) # Undefined
                 THEN caches
                 ELSE CachePut(caches, t.cache, Key(t.request), t.response)
    /\ tasks' = tasks (-) SetToBag({t})
    /\ UNCHANGED <<lifecycleVars, online, events, probeVars,
                   messageVars, pageVars>>

\* a cache.put that no handler awaits completes
PutComplete(t) ==
    /\ t.pc = "put"
    /\ caches' = CachePut(caches, t.cache, Key(t.request), t.response)
    /\ tasks' = tasks (-) SetToBag({t})
    /\ UNCHANGED <<lifecycleVars, online, events, probeVars,
                   messageVars, pageVars>>

\* the network becomes unreachable, or reachable again
NetworkChange ==
    /\ online' = ~online
    /\ UNCHANGED <<lifecycleVars, caches, tasks, events, probeVars,
                   messageVars, pageVars>>

-----------------------------------------------------------------------------
(* The message listener *)

\* the data.type of the messages the page sends; "PING" stands for any type
\* the listener does not know
MessageTypes == {"SKIP_WAITING", "GET_VERSION", "PING"}

\* a handled message event, as the page sees it: what it sent, whether it
\* transferred a port, and the messages posted on that port
Message(type, withPort, received) ==
    [type |-> type, port |-> withPort, received |-> received]

\* MessageEvent replying with the name of the static cache
MessageEvent_StaticName(type, withPort) ==
    /\ lifecycle # "redundant"
    /\ Len(ports) < MaxMessages
    /\ skipWaitingFlag' = (skipWaitingFlag \/ type = "SKIP_WAITING")
    /\ ports' = Append(ports,
                    Message(type, withPort,
                            IF type = "GET_VERSION" /\ withPort
                            THEN <<[version |-> STATIC_CACHE]>>
                            ELSE <<>>))
    /\ UNCHANGED <<lifecycle, installStep, addAllOutcome, installPromise, claimed,
                   toDelete, caches, online, tasks, events, probeVars, pageVars>>

\* the message listener: SKIP_WAITING calls self.skipWaiting(); GET_VERSION
\* posts { version: CACHE_NAME } on event.ports[0], and throws a TypeError
\* before posting anything when no port came with the message
MessageEvent(type, withPort) ==
    /\ lifecycle # "redundant"
    /\ Len(ports) < MaxMessages
    /\ skipWaitingFlag' = (skipWaitingFlag \/ type = "SKIP_WAITING")
    /\ ports' = Append(ports,
                    Message(type, withPort,
                            IF type = "GET_VERSION" /\ withPort
                            THEN <<[version |-> CACHE_NAME]>>
                            ELSE <<>>))
    /\ UNCHANGED <<lifecycle, installStep, addAllOutcome, installPromise, claimed,
                   toDelete, caches, online, tasks, events, probeVars, pageVars>>

-----------------------------------------------------------------------------
(* The page's details modal (src/unnamed/part_000) *)

\* a modal overlay: attached to document.body or not, carrying the class show
\* or not, its requestAnimationFrame callback pending or not, and how often
\* removeChild removed it, removeChild threw for it, and its onClose ran
Modal(attached, show, frame, removed, thrown, closed) ==
    [attached |-> attached, show |-> show, frame |-> frame,
     removed |-> removed, thrown |-> thrown, closed |-> closed]

\* a pending setTimeout callback: the focus of createModal (100 ms) or the
\* removal of closeModal (300 ms), the latter with or without an onClose
Timer(kind, modal, onClose) == [kind |-> kind, modal |-> modal, onClose |-> onClose]

Delay(timer) == IF timer.kind = "focus" THEN 100 ELSE 300

\* the removeChild calls made for the first n modals
RECURSIVE Removals(_)
Removals(n) ==
    IF n = 0 THEN 0 ELSE modals[n].removed + modals[n].thrown + Removals(n - 1)

\* the closeModal calls made so far: removals pending and done
Closes ==
    Cardinality({i \in 1..Len(timers) : timers[i].kind = "remove"})
        + Removals(Len(modals))

\* document.querySelectorAll('.modal-overlay'): the attached modals in
\* document order
Overlays == SelectSeq([m \in 1..Len(modals) |-> m], LAMBDA m : modals[m].attached)

\* showTeamDetails(card), on a click or Enter on a card: createModal appends
\* the overlay to the body and schedules the focus and the first frame
CreateModal ==
    /\ Len(modals) < MaxModals
    /\ modals' = Append(modals, Modal(TRUE, FALSE, TRUE, 0, 0, 0))
    /\ timers' = Append(timers, Timer("focus", Len(modals) + 1, FALSE))
    /\ UNCHANGED <<lifecycleVars, caches, online, tasks, events, probeVars,
                   messageVars, activeElement>>

\* closeModal(modal, onClose): the class show is removed and the removal is
\* scheduled, whatever the state of the modal
closeModal(m, onClose) ==
    /\ modals' = [modals EXCEPT ![m].show = FALSE]
    /\ timers' = Append(timers, Timer("remove", m, onClose))

\* a click on the close button of a modal in the document
CloseClick(m) ==
    /\ m \in 1..Len(modals)
    /\ modals[m].attached
    /\ Closes < MaxCloses
    /\ closeModal(m, TRUE)
    /\ UNCHANGED <<lifecycleVars, caches, online, tasks, events, probeVars,
                   messageVars, activeElement>>

\* a click on the overlay itself (e.target === modal) of a modal in the document
OverlayClick(m) ==
    /\ m \in 1..Len(modals)
    /\ modals[m].attached
    /\ Closes < MaxCloses
    /\ closeModal(m, TRUE)
    /\ UNCHANGED <<lifecycleVars, caches, online, tasks, events, probeVars,
                   messageVars, activeElement>>

\* the Escape key: closeAllOverlays calls closeModal(modal), without onClose,
\* for every overlay in the document
EscapeKey ==
    /\ Closes + Len(Overlays) <= MaxCloses
    /\ modals' = [m \in 1..Len(modals) |->
                    IF modals[m].attached
                    THEN [modals[m] EXCEPT !.show = FALSE]
                    ELSE modals[m]]
    /\ timers' = timers \o [n \in 1..Len(Overlays) |-> Timer("remove", Overlays[n], FALSE)]
    /\ UNCHANGED <<lifecycleVars, caches, online, tasks, events, probeVars,
                   messageVars, activeElement>>

\* the sequence s without its element i
Without(s, i) == SubSeq(s, 1, i - 1) \o SubSeq(s, i + 1, Len(s))

\* the callback of timer i runs; a timer scheduled earlier with the same or a
\* shorter delay has run before. Focus: closeBtn.focus(), which does nothing
\* for a button outside the document. Removal: document.body.removeChild(modal),
\* which throws NotFoundError when the modal is no child of the body, so that
\* onClose is not reached; otherwise the modal leaves the document and
\* onClose, if given, returns the focus to the card
TimerFires(i) ==
    /\ i \in 1..Len(timers)
    /\ \A j \in 1..(i - 1) : Delay(timers[j]) > Delay(timers[i])
    /\ LET timer == timers[i]
           m == timer.modal
       IN  IF timer.kind = "focus"
           THEN /\ activeElement' = IF modals[m].attached
                                    THEN Element("closeBtn", m)
                                    ELSE activeElement
                /\ UNCHANGED modals
           ELSE IF modals[m].attached
                THEN /\ modals' = [modals EXCEPT
                                      ![m].attached = FALSE,
                                      ![m].removed = @ + 1,
                                      ![m].closed = IF timer.onClose THEN @ + 1 ELSE @]
                     /\ activeElement' = IF timer.onClose THEN Card
                                         ELSE IF activeElement = Element("closeBtn", m)
                                              THEN Body
                                              ELSE activeElement
                ELSE /\ modals' = [modals EXCEPT ![m].thrown = @ + 1]
                     /\ UNCHANGED activeElement
    /\ timers' = Without(timers, i)
    /\ UNCHANGED <<lifecycleVars, caches, online, tasks, events, probeVars,
                   messageVars>>

\* the requestAnimationFrame callback of createModal: modal.classList.add('show')
AnimateIn(m) ==
    /\ m \in 1..Len(modals)
    /\ modals[m].frame
    /\ modals' = [modals EXCEPT ![m].frame = FALSE, ![m].show = TRUE]
    /\ UNCHANGED <<lifecycleVars, caches, online, tasks, events, probeVars,
                   messageVars, timers, activeElement>>

-----------------------------------------------------------------------------
(* Specification *)

Next ==
    \/ InstallOpen
    \/ InstallAddAll
    \/ InstallThen
    \/ InstallCatch
    \/ InstallSettled
    \/ ActivateKeys
    \/ \E cacheName \in toDelete : ActivateDelete(cacheName)
    \/ ActivateClaim
    \/ \E request \in Requests : FetchEvent(request)
    \/ \E t \in Running : CacheFirstMatch(t)
    \/ \E t \in Running : CacheFirstFetch(t)
    \/ \E t \in Running : CacheFirstOpen(t)
    \/ \E t \in Running : NetworkFirstFetch(t)
    \/ \E t \in Running : NetworkFirstOpen(t)
    \/ \E t \in Running : NetworkFirstMatch(t)
    \/ \E t \in Running : StaleOpen(t)
    \/ \E t \in Running : StaleMatch(t)
    \/ \E t \in Running : StaleFetch(t)
    \/ \E t \in Running : OfflineFallbackMatch(t)
    \/ \E t \in Running : PutComplete(t)
    \/ NetworkChange

Spec == Init /\ [][Next]_vars

-----------------------------------------------------------------------------
(* The classifier on its own: handleRequest applied to one request *)

ProbeHostnames ==
    { SelfHostname,
      <<"fonts", ".", "gstatic", ".", "com">>,
      <<"fonts", ".", "googleapis", ".", "com">>,
      <<"cdn", ".", "example", ".", "com">>,
      <<"other", ".", "example">> }

ProbePathnames ==
    { <<"/">>,
      <<"/", "index", ".html">>,
      <<"/", "styles", ".css">>,
      <<"/", "api", "/", "app", ".js">>,
      <<"/", "imagenes", "/", "bayern", ".svg">>,
      <<"/", "imagenes", "/", "logo", ".png">>,
      <<"/", "photo", ".jpg">>,
      <<"/", "photo", ".jpeg">>,
      <<"/", "photo", ".webp">>,
      <<"/", "api", "/", "standings">>,
      <<"/", "data", "/", "table">>,
      <<"/", "apiary", "/", "index", ".htm">>,
      <<"/", "unknown", "/", "path">>,
      <<"/", "foo">> }

ProbeSearches ==
    { <<>>,
      <<"?", "timestamp", "=", "1">>,
      <<"?", "cache-bust", "=", "2">>,
      <<"?", "page", "=", "3">> }

Probes ==
    { Request("GET", SelfProtocol, h, p, q, AcceptAny) :
        h \in ProbeHostnames, p \in ProbePathnames, q \in ProbeSearches }

InitClassify ==
    /\ InitWorker
    /\ probe \in Probes
    /\ dispatched = "none"
    /\ InitPage

\* handleRequest(probe) chooses a strategy
Classify ==
    /\ dispatched = "none"
    /\ dispatched' = handleRequest(probe)
    /\ UNCHANGED <<lifecycleVars, caches, online, tasks, events, probe,
                   messageVars, pageVars>>

SpecClassify == InitClassify /\ [][Classify]_vars

-----------------------------------------------------------------------------
(* The offline fallback on its own: the activated worker handles one request
   of the page's origin while the network is down *)

OfflineAccepts == {AcceptHtml, AcceptImage, AcceptAny}

OfflineProbes ==
    { Request("GET", SelfProtocol, SelfHostname, p, q, a) :
        p \in ProbePathnames, q \in ProbeSearches, a \in OfflineAccepts }

\* the worker is activated, after an install that stored the manifest or one
\* whose addAll was rejected, and the fetch event of one request was dispatched
InitOffline ==
    /\ lifecycle = "activated"
    /\ installStep = "done"
    /\ addAllOutcome \in {"fulfilled", "rejected"}
    /\ installPromise = "fulfilled"
    /\ skipWaitingFlag = (addAllOutcome = "fulfilled")
    /\ claimed = TRUE
    /\ toDelete = {}
    /\ caches = IF addAllOutcome = "fulfilled"
                THEN AddAll(CachesOpen(<<>>, STATIC_CACHE), <<"v1">>)
                ELSE CachesOpen(<<>>, STATIC_CACHE)
    /\ online = FALSE
    /\ \E request \in OfflineProbes : tasks = SetToBag({Start(request)})
    /\ events = 1
    /\ probe = NoRequest
    /\ dispatched = "none"
    /\ InitPage

NextOffline ==
    \/ \E t \in Running : CacheFirstMatch(t)
    \/ \E t \in Running : CacheFirstFetch(t)
    \/ \E t \in Running : NetworkFirstFetch(t)
    \/ \E t \in Running : NetworkFirstMatch(t)
    \/ \E t \in Running : OfflineFallbackMatch(t)

SpecOffline == InitOffline /\ [][NextOffline]_vars

-----------------------------------------------------------------------------
(* The message listener beside the life cycle: the page sends messages to
   the worker while it installs and activates *)

NextMessage ==
    \/ InstallOpen
    \/ InstallAddAll
    \/ InstallThen
    \/ InstallCatch
    \/ InstallSettled
    \/ ActivateKeys
    \/ \E cacheName \in toDelete : ActivateDelete(cacheName)
    \/ ActivateClaim
    \/ \E type \in MessageTypes, withPort \in BOOLEAN : MessageEvent(type, withPort)

SpecMessage == Init /\ [][NextMessage]_vars

-----------------------------------------------------------------------------
(* staleWhileRevalidate on its own: the activated worker handles requests for
   external resources, and every fetch and every cache operation it starts
   settles *)

StaleRequests ==
    {r \in Requests : Handled(r) /\ handleRequest(r) = "staleWhileRevalidate"}

\* the dynamic store as an earlier run of the worker left it: it holds a
\* response for the font
FontStored ==
    [name |-> DYNAMIC_CACHE,
     entries |-> [k \in {Key(FontRequest)} |-> NetworkResponse(200, <<"v1">>)]]

\* the worker is activated after an install that stored the manifest; the
\* dynamic store does not exist yet, or exists from an earlier run
InitStale ==
    /\ lifecycle = "activated"
    /\ installStep = "done"
    /\ addAllOutcome = "fulfilled"
    /\ installPromise = "fulfilled"
    /\ skipWaitingFlag = TRUE
    /\ claimed = TRUE
    /\ toDelete = {}
    /\ caches \in { AddAll(CachesOpen(<<>>, STATIC_CACHE), <<"v1">>),
                    AddAll(CachesOpen(<<>>, STATIC_CACHE), <<"v1">>) \o <<FontStored>> }
    /\ online \in BOOLEAN
    /\ tasks = EmptyBag
    /\ events = 0
    /\ probe = NoRequest
    /\ dispatched = "none"
    /\ InitPage

NextStale ==
    \/ \E request \in StaleRequests : FetchEvent(request)
    \/ \E t \in Running : StaleOpen(t)
    \/ \E t \in Running : StaleMatch(t)
    \/ \E t \in Running : StaleFetch(t)
    \/ \E t \in Running : PutComplete(t)
    \/ NetworkChange

\* a cache operation that was started completes, and a fetch that was started
\* resolves or rejects
FairStale ==
    /\ WF_vars(\E t \in Running : StaleOpen(t))
    /\ WF_vars(\E t \in Running : StaleMatch(t))
    /\ WF_vars(\E t \in Running : StaleFetch(t))
    /\ WF_vars(\E t \in Running : PutComplete(t))

SpecStale == InitStale /\ [][NextStale]_vars /\ FairStale

-----------------------------------------------------------------------------
(* The modal on its own: the user opens details, closes them by button,
   overlay or Escape, and the page's timers and frames run *)

InitModal ==
    /\ Init
    /\ caches = <<>>
    /\ online

NextModal ==
    \/ CreateModal
    \/ \E m \in 1..Len(modals) : CloseClick(m)
    \/ \E m \in 1..Len(modals) : OverlayClick(m)
    \/ EscapeKey
    \/ \E i \in 1..Len(timers) : TimerFires(i)
    \/ \E m \in 1..Len(modals) : AnimateIn(m)

SpecModal == InitModal /\ [][NextModal]_vars

-----------------------------------------------------------------------------
(* Vocabulary of the properties *)

\* the handler of request is resolved with response
Resolved(request, response) == Task("resolved", request, "", response)

\* the un-awaited cache.put(request, response) on the cache called name
Put(request, name, response) == Task("put", request, name, response)

\* this step is a step of task t
Stepped(t) == CopiesIn(t, tasks') < CopiesIn(t, tasks)

\* this step replaces task t by the tasks of the set `successors`
Becomes(t, successors) ==
    tasks' = (tasks (-) SetToBag({t})) (+) SetToBag(successors)

\* the responses the network can give
NetworkResponses == {NetworkResponse(status, body) : status \in Statuses, body \in Bodies}

\* what the static and the dynamic store hold for a request
StaticEntry(cs, request) == CacheMatch(cs, STATIC_CACHE, Key(request))
DynamicEntry(cs, request) == CacheMatch(cs, DYNAMIC_CACHE, Key(request))

-----------------------------------------------------------------------------
(* C1 *)

\* a cacheFirst handler that looks the request up while the static store holds
\* a response for it is resolved with exactly that response and starts no fetch,
\* whatever the state of the network
C1_ServesStored ==
    \A t \in Running :
        (/\ t.pc = "cf_match"
         /\ StaticEntry(caches, t.request) # Undefined
         /\ Stepped(t))
        => /\ Becomes(t, {Resolved(t.request, StaticEntry(caches, t.request))})
           /\ caches' = caches

\* a response the static store holds for a request is never removed
C1_StaysStored ==
    \A k \in DOMAIN Entries(caches, STATIC_CACHE) :
        k \in DOMAIN Entries(caches', STATIC_CACHE)

\* a stored response is replaced only by the manifest at install or by the
\* cache.put of a handler that had found nothing stored and fetched the request
C1_ReplacedOnlyByWrite ==
    \A k \in DOMAIN Entries(caches, STATIC_CACHE) :
        Entries(caches', STATIC_CACHE)[k] # Entries(caches, STATIC_CACHE)[k]
        => \/ lifecycle = "installing"
           \/ \E t \in Running :
                 /\ t.pc = "put" /\ t.cache = STATIC_CACHE /\ Key(t.request) = k
                 /\ Stepped(t)
                 /\ Entries(caches', STATIC_CACHE)[k] = t.response

\* every response the static store holds came from the network with status 200
C1_StoredWere200 ==
    \A k \in DOMAIN Entries(caches, STATIC_CACHE) :
        /\ Entries(caches, STATIC_CACHE)[k] \in NetworkResponses
        /\ Entries(caches, STATIC_CACHE)[k].status = 200

\* C1: once a static-asset response fetched with status 200 is stored, every
\* later cacheFirst call for the request returns the stored response, also
\* while the network is unreachable
C1_StoredStaticIsServed ==
    /\ []C1_StoredWere200
    /\ [][C1_ServesStored /\ C1_StaysStored /\ C1_ReplacedOnlyByWrite]_vars

\* C1 witness: the logo, not part of the manifest, was fetched and stored by one
\* handler and a second handler returned the stored response; the network is down
C1_Witness ==
    /\ ~online
    /\ \E r \in NetworkResponses :
        /\ r.status = 200
        /\ StaticEntry(caches, LogoRequest) = r
        /\ CopiesIn(Resolved(LogoRequest, r), tasks) = 2
        /\ BagCardinality(tasks) = 2

-----------------------------------------------------------------------------
(* C2 *)

\* a resolved fetch of networkFirst: a response whose status is in `stored` is
\* taken on to be stored, any other response is returned as it is
C2_FetchResolves(stored) ==
    \A t \in Running :
        (t.pc = "nf_fetch" /\ online /\ Stepped(t))
        => /\ caches' = caches
           /\ \E r \in NetworkResponses :
                IF r.status \in stored
                THEN Becomes(t, {Task("nf_open", t.request, "", r)})
                ELSE Becomes(t, {Resolved(t.request, r)})

\* the response taken on is returned, and its copy is put into the dynamic store
C2_ReturnsAndPuts ==
    \A t \in Running :
        (t.pc = "nf_open" /\ Stepped(t))
        => /\ Becomes(t, {Resolved(t.request, t.response),
                          Put(t.request, DYNAMIC_CACHE, t.response)})
           /\ CachesHas(caches', DYNAMIC_CACHE)
           /\ Entries(caches', DYNAMIC_CACHE) = Entries(caches, DYNAMIC_CACHE)
           /\ Entries(caches', STATIC_CACHE) = Entries(caches, STATIC_CACHE)

\* when the put completes, the store's entry for the request equals the response
C2_PutUpdatesStore ==
    \A t \in Running :
        (t.pc = "put" /\ Stepped(t))
        => /\ CacheMatch(caches', t.cache, Key(t.request)) = t.response
           /\ Becomes(t, {})

\* C2 as stated: whenever the fetch of networkFirst succeeds, the network
\* response is returned and the dynamic store's entry is updated to equal it
C2_Original ==
    [][C2_FetchResolves(Statuses) /\ C2_ReturnsAndPuts /\ C2_PutUpdatesStore]_vars

\* C2 amended: when the fetch of networkFirst succeeds with status 200, the
\* network response is returned and the dynamic store's entry is updated to
\* equal it; a response with another status is returned and not stored
C2_NetworkFirstStores200 ==
    [][C2_FetchResolves({200}) /\ C2_ReturnsAndPuts /\ C2_PutUpdatesStore]_vars

\* C2 witness: the standings were fetched anew, returned, and stored
C2_Witness ==
    /\ CopiesIn(Resolved(StandingsRequest, NetworkResponse(200, <<"v2">>)), tasks) = 1
    /\ DynamicEntry(caches, StandingsRequest) = NetworkResponse(200, <<"v2">>)
    /\ BagCardinality(tasks) = 1

-----------------------------------------------------------------------------
(* C3 *)

NetworkFirstRequests ==
    {r \in Requests : Handled(r) /\ handleRequest(r) = "networkFirst"}

\* what getOfflineFallback leaves of the handler of request: the lookup of the
\* cached root page, or a synthesized response
FallbackSuccessors(request) ==
    {Task("fb_match", request, "", Undefined),
     Resolved(request, PlaceholderImage),
     Resolved(request, Unavailable)}

\* after a failed fetch, a response the dynamic store holds for the request is
\* returned; without one the handler goes to the offline fallback
C3_FallsBackToStore ==
    \A t \in Running :
        (t.pc = "nf_match" /\ Stepped(t))
        => /\ caches' = caches
           /\ IF DynamicEntry(caches, t.request) # Undefined
              THEN Becomes(t, {Resolved(t.request, DynamicEntry(caches, t.request))})
              ELSE \E u \in FallbackSuccessors(t.request) : Becomes(t, {u})

\* the handler looks into the store only after its fetch was rejected
C3_StoreOnlyAfterFailure ==
    \A t \in Running :
        (t.pc = "nf_fetch" /\ Stepped(t))
        => (online <=> ~Becomes(t, {Task("nf_match", t.request, "", Undefined)}))

\* the offline fallback of a networkFirst request starts only in a handler whose
\* fetch failed and that found no stored response
C3_FallbackOnlyWithoutStore ==
    \A r \in NetworkFirstRequests :
        (\E u \in FallbackSuccessors(r) : CopiesIn(u, tasks') > CopiesIn(u, tasks))
        => \E t \in Running :
              /\ t.pc = "nf_match"
              /\ t.request = r
              /\ Stepped(t)
              /\ DynamicEntry(caches, r) = Undefined

\* C3: when the fetch of networkFirst fails and a stored response exists, that
\* response is returned; the offline fallback is used only when the fetch
\* fails and nothing is stored
C3_NetworkFirstFallsBack ==
    [][C3_FallsBackToStore /\ C3_StoreOnlyAfterFailure /\ C3_FallbackOnlyWithoutStore]_vars

\* C3 witness: with the network down, the one request so far, for the
\* standings, was answered with the response the dynamic store held
C3_Witness ==
    /\ ~online
    /\ events = 1
    /\ BagCardinality(tasks) = 1
    /\ DynamicEntry(caches, StandingsRequest) # Undefined
    /\ CopiesIn(Resolved(StandingsRequest, DynamicEntry(caches, StandingsRequest)), tasks) = 1

-----------------------------------------------------------------------------
(* C4 *)

\* with a stored response, the handler is resolved with it at the lookup, while
\* the fetch it started is still outstanding
C4_ResolvesAtLookup ==
    \A t \in Running :
        (/\ t.pc = "swr_match"
         /\ DynamicEntry(caches, t.request) # Undefined
         /\ Stepped(t))
        => /\ Becomes(t, {Resolved(t.request, DynamicEntry(caches, t.request)),
                          Task("swr_detached", t.request, DYNAMIC_CACHE, Undefined)})
           /\ caches' = caches

\* what a handler was resolved with stays: no step takes a resolution back
C4_ResolutionStays ==
    \A t \in Running : t.pc = "resolved" => CopiesIn(t, tasks') >= CopiesIn(t, tasks)

\* the outstanding fetch, however it ends, resolves nothing
C4_DetachedResolvesNothing ==
    \A t \in Running :
        (t.pc = "swr_detached" /\ Stepped(t))
        => \A u \in BagToSet(tasks') :
              u.pc = "resolved" => CopiesIn(u, tasks') = CopiesIn(u, tasks)

\* C4: staleWhileRevalidate, when the dynamic store holds a response, resolves
\* with it without waiting for the fetch it started, and the result is the same
\* however that fetch ends
C4_StaleAnswersFromStore ==
    [][C4_ResolvesAtLookup /\ C4_ResolutionStays /\ C4_DetachedResolvesNothing]_vars

\* C4 witness: the font request is resolved with the stored response and its
\* fetch is still outstanding
C4_Witness ==
    /\ DynamicEntry(caches, FontRequest) # Undefined
    /\ CopiesIn(Resolved(FontRequest, DynamicEntry(caches, FontRequest)), tasks) >= 1
    /\ CopiesIn(Task("swr_detached", FontRequest, DYNAMIC_CACHE, Undefined), tasks) = 1

-----------------------------------------------------------------------------
(* C5 *)

\* C5 as stated: every handled request is resolved with a response - one from
\* the network, a stored one or one of the offline fallback - and never with
\* no response
C5_AlwaysAResponse ==
    \A t \in Running :
        t.pc = "resolved"
        => /\ t.response # Undefined
           /\ t.response \in NetworkResponses \cup {OfflinePage, PlaceholderImage, Unavailable}

-----------------------------------------------------------------------------
(* C6 *)

\* C6 as stated: when cache.addAll rejects, the promise given to waitUntil
\* rejects and the worker is not installed
C6_InstallFails ==
    addAllOutcome = "rejected"
    => /\ installPromise \in {"pending", "rejected"}
       /\ lifecycle \in {"installing", "redundant"}

-----------------------------------------------------------------------------
(* C7 *)

FetchWaiting == {"cf_fetch", "nf_fetch", "swr_wait", "swr_detached"}

\* the storing path a response of status 200 takes in the strategy of task t
C7_StoringPath(t, r) ==
    IF t.pc = "cf_fetch" THEN Becomes(t, {Task("cf_open", t.request, "", r)})
    ELSE IF t.pc = "nf_fetch" THEN Becomes(t, {Task("nf_open", t.request, "", r)})
    ELSE IF t.pc = "swr_wait"
         THEN Becomes(t, {Resolved(t.request, r), Put(t.request, DYNAMIC_CACHE, r)})
         ELSE Becomes(t, {Put(t.request, DYNAMIC_CACHE, r)})

\* every resolved fetch either carries status 200 and takes the storing path, or
\* carries another status: then no store changes, nothing is left to run (no put,
\* no lookup, no fallback, no second fetch) and the response itself is what the
\* handler returns - by every handler if `always`, else by every handler that
\* has not returned already
C7_PassThrough(always) ==
    \A t \in Running :
        (t.pc \in FetchWaiting /\ online /\ Stepped(t))
        => \/ \E r \in NetworkResponses : r.status = 200 /\ C7_StoringPath(t, r)
           \/ \E r \in NetworkResponses :
                /\ r.status # 200
                /\ caches' = caches
                /\ IF always \/ t.pc # "swr_detached"
                   THEN Becomes(t, {Resolved(t.request, r)})
                   ELSE Becomes(t, {})

\* every response in every store has status 200
C7_OnlyOkStored ==
    \A i \in 1..Len(caches) :
        \A k \in DOMAIN caches[i].entries : caches[i].entries[k].status = 200

\* no put of a response with another status is ever outstanding
C7_OnlyOkPut ==
    \A t \in Running : t.pc \in {"put", "cf_open", "nf_open"} => t.response.status = 200

\* C7 as stated: in all three strategies a response whose status is not 200 is
\* returned to the caller, written to no store, and starts no fallback or retry
C7_Original ==
    /\ [](C7_OnlyOkStored /\ C7_OnlyOkPut)
    /\ [][C7_PassThrough(TRUE)]_vars

\* C7 amended: a response whose status is not 200 is written to no store and
\* starts no fallback or retry; cacheFirst, networkFirst and a
\* staleWhileRevalidate handler that found no stored response return it
\* unchanged, while a staleWhileRevalidate handler that has already returned
\* the stored response drops it
C7_Non200PassesThrough ==
    /\ [](C7_OnlyOkStored /\ C7_OnlyOkPut)
    /\ [][C7_PassThrough(FALSE)]_vars

\* C7 witness: the logo (cacheFirst) and the font (staleWhileRevalidate) were
\* each answered with the 404 response of the network; nothing is stored for
\* either and nothing is left to run
C7_Witness ==
    /\ \E r \in NetworkResponses :
          r.status = 404 /\ CopiesIn(Resolved(LogoRequest, r), tasks) = 1
    /\ \E r \in NetworkResponses :
          r.status = 404 /\ CopiesIn(Resolved(FontRequest, r), tasks) = 1
    /\ StaticEntry(caches, LogoRequest) = Undefined
    /\ DynamicEntry(caches, FontRequest) = Undefined
    /\ BagCardinality(tasks) = 2

-----------------------------------------------------------------------------
(* C8 *)

Current == {STATIC_CACHE, DYNAMIC_CACHE}

\* once activated, no store with another name is left
C8_OthersDeleted ==
    lifecycle = "activated" => CachesKeys(caches) \subseteq Current

\* from the start of the activate step to its end the two current stores stay
\* as they are: each exists iff it did, with the same entries
C8_CurrentUntouched ==
    lifecycle \in {"installed", "activating"}
    => \A name \in Current :
          /\ CachesHas(caches', name) <=> CachesHas(caches, name)
          /\ Entries(caches', name) = Entries(caches, name)

\* C8: after activation every store named neither STATIC_CACHE nor DYNAMIC_CACHE
\* is deleted and those two are as they were before
C8_ActivationPurgesOthers ==
    /\ []C8_OthersDeleted
    /\ [][C8_CurrentUntouched]_vars

\* C8 witness: activation is complete, the stores of an earlier version and of
\* others are gone, the two current ones hold what they held before
C8_Witness ==
    /\ lifecycle = "activated"
    /\ events = 0
    /\ addAllOutcome = "rejected"
    /\ CachesKeys(caches) = Current
    /\ Entries(caches, STATIC_CACHE) = OldEntries
    /\ Entries(caches, DYNAMIC_CACHE) = OldDynamicEntries

-----------------------------------------------------------------------------
(* C9 *)

StaticSuffixes == {".html", ".css", ".js", ".svg", ".png", ".jpg", ".jpeg", ".webp"}

\* rule 1 of the classifier: the path ends in a static suffix or is the root
C9_RuleStatic(r) ==
    LET path == r.url.pathname IN
    \/ path = <<"/">>
    \/ Len(path) > 0 /\ path[Len(path)] \in StaticSuffixes

\* rule 2: the path has a segment api or data, or the query names timestamp or
\* cache-bust
C9_RuleDynamic(r) ==
    LET path == r.url.pathname
        query == r.url.search
    IN  \/ \E i \in 1..Len(path) :
              /\ i + 2 <= Len(path)
              /\ path[i] = "/" /\ path[i + 1] \in {"api", "data"} /\ path[i + 2] = "/"
        \/ \E i \in 1..Len(query) : query[i] \in {"timestamp", "cache-bust"}

\* rule 3: the host is not the page's own
C9_RuleExternal(r) == r.url.hostname # SelfHostname

\* the strategy of the first rule that matches
C9_FirstMatch(r) ==
    IF C9_RuleStatic(r) THEN "cacheFirst"
    ELSE IF C9_RuleDynamic(r) THEN "networkFirst"
    ELSE IF C9_RuleExternal(r) THEN "staleWhileRevalidate"
    ELSE "networkFirst"

\* C9: handleRequest hands every request to the strategy of the first matching
\* rule, in the order static, dynamic, external, default; the four requests
\* the specification names go where it says
C9_FirstMatchingRule ==
    /\ dispatched # "none" => dispatched = C9_FirstMatch(probe)
    /\ handleRequest(IndexRequest) = "cacheFirst"
    /\ handleRequest(StandingsRequest) = "networkFirst"
    /\ handleRequest(FontRequest) = "staleWhileRevalidate"
    /\ handleRequest(UnknownRequest) = "networkFirst"
    /\ ~isStaticAsset(UnknownRequest)
    /\ ~isDynamicContent(UnknownRequest)
    /\ ~isExternalResource(UnknownRequest)

\* C9 witness: a request that matches all three rules - a script under /api/ on
\* a CDN host, with a timestamp - went to cacheFirst
C9_Witness ==
    /\ dispatched = "cacheFirst"
    /\ probe = Request("GET", SelfProtocol, <<"cdn", ".", "example", ".", "com">>,
                       <<"/", "api", "/", "app", ".js">>,
                       <<"?", "timestamp", "=", "1">>, AcceptAny)
    /\ isDynamicContent(probe)
    /\ isExternalResource(probe)

-----------------------------------------------------------------------------
(* C10 *)

\* the request is a GET over http or https
C10_GetOverHttp(r) ==
    /\ r.method = "GET"
    /\ r.url.protocol \in {<<"http", ":">>, <<"http", "s", ":">>}

\* a request that is not a GET over http(s) is only ever passed, and only such
\* a request is
C10_OnlyGetHttpHandled ==
    \A t \in Running : t.pc = "passthrough" <=> ~C10_GetOverHttp(t.request)

\* the event of such a request changes no store and starts nothing, and the
\* passed request never runs any step of the worker
C10_PassedTouchesNothing ==
    \A r \in Requests :
        LET passed == Task("passthrough", r, "", Undefined) IN
        /\ CopiesIn(passed, tasks') >= CopiesIn(passed, tasks)
        /\ CopiesIn(passed, tasks') > CopiesIn(passed, tasks)
           => /\ caches' = caches
              /\ tasks' = tasks (+) SetToBag({passed})

\* C10: for a request that is not a GET over http(s) the listener does not
\* respond, no strategy runs and no store is read or written; only GET http(s)
\* requests reach handleRequest
C10_OthersPassThrough ==
    /\ []C10_OnlyGetHttpHandled
    /\ [][C10_PassedTouchesNothing]_vars

\* C10 witness: a POST and a chrome-extension request were both passed
C10_Witness ==
    /\ CopiesIn(Task("passthrough", PostRequest, "", Undefined), tasks) = 1
    /\ CopiesIn(Task("passthrough", ExtensionRequest, "", Undefined), tasks) = 1
    /\ BagCardinality(tasks) = 2

-----------------------------------------------------------------------------
(* C11 *)

\* the handler t calls getOfflineFallback in this step: cacheFirst after a
\* rejected fetch, networkFirst after a rejected fetch and a lookup without result
FallbackInvoked(t) ==
    /\ Stepped(t)
    /\ \/ t.pc = "cf_fetch" /\ ~online
       \/ t.pc = "nf_match" /\ CachesMatch(caches, Key(t.request)) = Undefined

\* the accept header of the request includes text/html
AcceptsHtml(request) == Includes(request.accept, <<"text/html">>)

\* the cached root page, in whichever cache holds one
RootPage(cs) == CachesMatch(cs, Resolve(<<"/", "index", ".html">>))

\* the fallback of an HTML-accepting request goes to the lookup of the cached
\* root page and returns nothing before it
C11_HtmlLooksUpRootPage ==
    \A t \in Running :
        (FallbackInvoked(t) /\ AcceptsHtml(t.request))
        => /\ Becomes(t, {Task("fb_match", t.request, "", Undefined)})
           /\ caches' = caches

\* the lookup returns the cached root page when there is one, and otherwise the
\* synthesized page, which is text/html and contains "Sin conexión"
C11_RootPageOrOfflinePage ==
    \A t \in Running :
        (t.pc = "fb_match" /\ Stepped(t))
        => /\ caches' = caches
           /\ IF RootPage(caches) # Undefined
              THEN Becomes(t, {Resolved(t.request, RootPage(caches))})
              ELSE /\ Becomes(t, {Resolved(t.request, OfflinePage)})
                   /\ OfflinePage.contentType = "text/html"
                   /\ Includes(OfflinePage.body, <<"Sin conexión">>)

\* only HTML-accepting requests wait for the root page, and none of them is
\* ever answered with the generic 503 response
C11_NoUnavailableForHtml ==
    \A t \in Running :
        /\ t.pc = "fb_match" => AcceptsHtml(t.request)
        /\ (t.pc = "resolved" /\ AcceptsHtml(t.request))
           => (t.response # Unavailable /\ t.response.status # 503)

\* C11: the offline fallback of a request that accepts text/html returns the
\* cached root page if there is one and otherwise the synthesized offline page
\* (text/html, containing "Sin conexión"); it never returns the generic 503
C11_HtmlFallback ==
    /\ []C11_NoUnavailableForHtml
    /\ [][C11_HtmlLooksUpRootPage /\ C11_RootPageOrOfflinePage]_vars

\* C11 witness: no root page is cached, the network is down, and the request
\* for an unknown page was answered with the synthesized offline page
C11_Witness ==
    /\ ~online
    /\ RootPage(caches) = Undefined
    /\ CopiesIn(Resolved(UnknownRequest, OfflinePage), tasks) = 1

-----------------------------------------------------------------------------
(* C12 *)

\* the path of the request ends in one of the three image suffixes the
\* fallback tests
C12_ImagePath(request) ==
    \E suffix \in {".svg", ".png", ".jpg"} : EndsWith(request.url.pathname, <<suffix>>)

\* the fallback of a request that does not accept text/html returns at once:
\* the placeholder image for an image path, the 503 response for any other
C12_PlaceholderOrUnavailable ==
    \A t \in Running :
        (FallbackInvoked(t) /\ ~AcceptsHtml(t.request))
        => /\ caches' = caches
           /\ IF C12_ImagePath(t.request)
              THEN /\ Becomes(t, {Resolved(t.request, PlaceholderImage)})
                   /\ PlaceholderImage.contentType = "image/svg+xml"
                   /\ Includes(PlaceholderImage.body, <<"no disponible">>)
              ELSE /\ Becomes(t, {Resolved(t.request, Unavailable)})
                   /\ Unavailable.status = 503

\* C12: for a request that does not accept text/html, the offline fallback
\* returns the placeholder SVG (image/svg+xml, containing "no disponible") when
\* the path ends in .svg, .png or .jpg, and a response with status 503 otherwise
C12_ImageFallback == [][C12_PlaceholderOrUnavailable]_vars

\* C12 witness: the request for an image that is not stored, /photo.jpg, was
\* answered with the placeholder while the network was down
C12_Witness ==
    \E t \in Running :
        /\ t.pc = "resolved"
        /\ t.request.url.pathname = <<"/", "photo", ".jpg">>
        /\ t.request.accept = AcceptImage
        /\ t.response = PlaceholderImage

-----------------------------------------------------------------------------
(* C13 *)

\* this step handles a message event
C13_Handled == Len(ports') = Len(ports) + 1

\* the message handled in this step
C13_Message == ports'[Len(ports')]

\* a GET_VERSION message that came with a port gets one reply on that port,
\* { version: CACHE_NAME }; no other message gets a reply, and the ports of
\* the messages handled before get nothing more
C13_OneReply ==
    C13_Handled
    => /\ SubSeq(ports', 1, Len(ports)) = ports
       /\ IF C13_Message.type = "GET_VERSION" /\ C13_Message.port
          THEN C13_Message.received = <<[version |-> CACHE_NAME]>>
          ELSE C13_Message.received = <<>>

\* handling a message changes no store, and no life cycle state unless the
\* message is SKIP_WAITING
C13_Frame ==
    C13_Handled
    => /\ caches' = caches
       /\ tasks' = tasks
       /\ C13_Message.type # "SKIP_WAITING" => lifecycleVars' = lifecycleVars
       /\ <<lifecycle, installStep, addAllOutcome, installPromise, claimed,
            toDelete>>' = <<lifecycle, installStep, addAllOutcome, installPromise,
                            claimed, toDelete>>

\* the version string names no cache of the origin: it is neither of the two
\* current stores, and no store is ever created under it
C13_VersionNamesNoStore ==
    /\ CACHE_NAME \notin Current
    /\ CACHE_NAME \notin CachesKeys(caches)

\* C13 as stated: every reply to GET_VERSION carries as version the identifier
\* of the current stores, STATIC_CACHE or DYNAMIC_CACHE
C13_Original ==
    \A i \in 1..Len(ports) :
        \A n \in 1..Len(ports[i].received) : ports[i].received[n].version \in Current

\* C13: a GET_VERSION message that came with a port is answered with exactly
\* one reply on that port, whose version is the constant CACHE_NAME, a string
\* that names neither current store; handling it changes no store and no life
\* cycle state
C13_VersionReply ==
    /\ []C13_VersionNamesNoStore
    /\ [][C13_OneReply /\ C13_Frame]_vars

\* C13 witness: the activated worker, its static store in place, has answered
\* a GET_VERSION message on the port that came with it
C13_Witness ==
    /\ lifecycle = "activated"
    /\ CachesHas(caches, STATIC_CACHE)
    /\ \E i \in 1..Len(ports) :
          ports[i] = Message("GET_VERSION", TRUE, <<[version |-> CACHE_NAME]>>)

-----------------------------------------------------------------------------
(* C14 *)

\* the places of the manifest whose path ends in suffix
C14_Ending(suffix) ==
    {n \in 1..Len(STATIC_ASSETS) : EndsWith(STATIC_ASSETS[n], <<suffix>>)}

\* the places of the manifest that name the root document: "/" and "/index.html"
C14_Documents ==
    {n \in 1..Len(STATIC_ASSETS) : STATIC_ASSETS[n] = <<"/">>} \cup C14_Ending(".html")

\* the places of the manifest that name a crest: an SVG image under /imagenes/
C14_Crests ==
    {n \in C14_Ending(".svg") : StartsWith(STATIC_ASSETS[n], <<"/", "imagenes", "/">>)}

\* the keys the manifest is stored under
C14_Keys == {Resolve(STATIC_ASSETS[n]) : n \in 1..Len(STATIC_ASSETS)}

\* the manifest has 22 entries, all different: the root document under its two
\* paths, first, then one stylesheet, two scripts and 17 crests
C14_Counts ==
    /\ Len(STATIC_ASSETS) = 22
    /\ Cardinality(C14_Keys) = 22
    /\ C14_Documents = {1, 2}
    /\ C14_Ending(".css") = {3}
    /\ C14_Ending(".js") = {4, 5}
    /\ C14_Crests = 6..22

\* an addAll that is fulfilled has stored every entry of the manifest
C14_AllStored ==
    (addAllOutcome = "none" /\ addAllOutcome' = "fulfilled")
    => /\ C14_Keys \subseteq DOMAIN Entries(caches', STATIC_CACHE)
       /\ \A k \in DOMAIN Entries(caches', STATIC_CACHE) \ C14_Keys :
             k \in DOMAIN Entries(caches, STATIC_CACHE)

\* C14 as stated: the manifest that install has stored has exactly 20 paths,
\* the root document, one stylesheet, two scripts and 16 crests
C14_Original ==
    addAllOutcome = "fulfilled"
    => /\ Len(STATIC_ASSETS) = 20
       /\ Cardinality(C14_Keys \cap DOMAIN Entries(caches, STATIC_CACHE)) = 20
       /\ Cardinality(C14_Documents) = 1
       /\ Cardinality(C14_Ending(".css")) = 1
       /\ Cardinality(C14_Ending(".js")) = 2
       /\ Cardinality(C14_Crests) = 16

\* C14: the install-time manifest is a fixed ordered list of exactly 22 paths:
\* the root document as "/" and as "/index.html", one stylesheet, two scripts
\* and 17 crests, and install stores all of them
C14_Manifest ==
    /\ []C14_Counts
    /\ [][C14_AllStored]_vars

\* C14 witness: on an origin without caches, install has stored the manifest,
\* and the static store holds its 22 entries
C14_Witness ==
    /\ addAllOutcome = "fulfilled"
    /\ DOMAIN Entries(caches, STATIC_CACHE) = C14_Keys
    /\ Cardinality(DOMAIN Entries(caches, STATIC_CACHE)) = 22

-----------------------------------------------------------------------------
(* C15 *)

\* the un-awaited writes this step starts
C15_NewPuts ==
    {u \in BagToSet(tasks') : u.pc = "put" /\ CopiesIn(u, tasks') > CopiesIn(u, tasks)}

\* every call starts a fetch at the lookup, with or without a stored response
C15_AlwaysFetches ==
    \A t \in Running :
        (t.pc = "swr_match" /\ Stepped(t))
        => \E pc \in {"swr_detached", "swr_wait"} :
              LET fetching == Task(pc, t.request, DYNAMIC_CACHE, Undefined) IN
              /\ CopiesIn(fetching, tasks') = CopiesIn(fetching, tasks) + 1
              /\ pc = "swr_detached" <=> DynamicEntry(caches, t.request) # Undefined

\* when the fetch settles, the only write started is one of a 200 response to
\* the dynamic store under the request; a handler that waited for a 200
\* response has started the write of it; the store itself is not touched yet
C15_OkIsWritten ==
    \A t \in Running :
        (t.pc \in {"swr_detached", "swr_wait"} /\ Stepped(t))
        => /\ caches' = caches
           /\ Cardinality(C15_NewPuts) <= 1
           /\ \A u \in C15_NewPuts :
                 /\ online
                 /\ u = Put(t.request, DYNAMIC_CACHE, u.response)
                 /\ u.response \in NetworkResponses
                 /\ u.response.status = 200
           /\ \A r \in NetworkResponses :
                 (/\ t.pc = "swr_wait"
                  /\ r.status = 200
                  /\ CopiesIn(Resolved(t.request, r), tasks')
                        > CopiesIn(Resolved(t.request, r), tasks))
                 => Put(t.request, DYNAMIC_CACHE, r) \in C15_NewPuts

\* the write, when it completes, replaces the entry of the request
C15_WriteOverwrites ==
    \A t \in Running :
        (t.pc = "put" /\ t.cache = DYNAMIC_CACHE /\ Stepped(t))
        => DynamicEntry(caches', t.request) = t.response

\* a fetch that fails after the handler returned the stored response starts
\* no write, changes no store and leaves every returned response as it is
C15_FailureChangesNothing ==
    \A t \in Running :
        (t.pc = "swr_detached" /\ Stepped(t) /\ ~online)
        => /\ caches' = caches
           /\ tasks' = tasks (-) SetToBag({t})

\* a write that was started is completed: the entry becomes the new response
C15_EventuallyOverwritten ==
    \A r \in StaleRequests : \A response \in NetworkResponses :
        (CopiesIn(Put(r, DYNAMIC_CACHE, response), tasks) > 0)
        ~> (DynamicEntry(caches, r) = response)

-----------------------------------------------------------------------------
(* C16 *)

\* the tasks at position pc that this step starts
C16_Started(pc) ==
    {u \in BagToSet(tasks') : u.pc = pc /\ CopiesIn(u, tasks') > CopiesIn(u, tasks)}

\* a lookup that finds a stored response returns it as it is, starts no fetch
\* and no write, and changes no store
C16_HitReturnsStored ==
    \A t \in Running :
        (/\ t.pc = "cf_match"
         /\ CachesMatch(caches, Key(t.request)) # Undefined
         /\ Stepped(t))
        => /\ Becomes(t, {Resolved(t.request, CachesMatch(caches, Key(t.request)))})
           /\ caches' = caches
           /\ C16_Started("cf_fetch") = {}
           /\ C16_Started("put") = {}

\* a write to the static store is started only by a handler that fetched the
\* request, and a handler fetches only after a lookup that found nothing
C16_WritersHadMissed ==
    /\ \A u \in C16_Started("put") :
          u.cache = STATIC_CACHE
          => \E t \in Running :
                /\ t = Task("cf_open", u.request, "", u.response)
                /\ Stepped(t)
    /\ \A u \in C16_Started("cf_open") :
          \E t \in Running :
             /\ t = Task("cf_fetch", u.request, "", Undefined)
             /\ Stepped(t)
    /\ \A u \in C16_Started("cf_fetch") :
          \E t \in Running :
             /\ t = Task("cf_match", u.request, "", Undefined)
             /\ Stepped(t)
             /\ CachesMatch(caches, Key(u.request)) = Undefined

\* an entry of the static store stays, and its response changes only at install
\* or when a write that such a handler started completes
C16_ChangedOnlyByWriters ==
    \A k \in DOMAIN Entries(caches, STATIC_CACHE) :
        /\ k \in DOMAIN Entries(caches', STATIC_CACHE)
        /\ Entries(caches', STATIC_CACHE)[k] # Entries(caches, STATIC_CACHE)[k]
           => \/ lifecycle = "installing"
              \/ \E t \in Running :
                    /\ t = Put(t.request, STATIC_CACHE, Entries(caches', STATIC_CACHE)[k])
                    /\ Key(t.request) = k
                    /\ Stepped(t)

\* C16 as stated, its consequence: an entry of the static store, once stored,
\* changes only through install or the deletion of the store
C16_Original ==
    [][\A k \in DOMAIN Entries(caches, STATIC_CACHE) :
          (\/ k \notin DOMAIN Entries(caches', STATIC_CACHE)
           \/ Entries(caches', STATIC_CACHE)[k] # Entries(caches, STATIC_CACHE)[k])
          => lifecycle \in {"installing", "activating"}]_vars

\* C16: a cacheFirst lookup that finds a stored response returns it verbatim,
\* fetches nothing and modifies no store; so a request that arrives once the
\* entry is stored never refreshes it, and the entry changes only through
\* install or through the write of a handler whose lookup had found nothing
C16_HitTouchesNothing ==
    [][C16_HitReturnsStored /\ C16_WritersHadMissed /\ C16_ChangedOnlyByWriters]_vars

\* C16 witness: two handlers for the logo both found nothing, fetched different
\* responses and wrote them; the second write replaced the stored entry
C16_Witness ==
    /\ events = 2
    /\ BagCardinality(tasks) = 2
    /\ CopiesIn(Resolved(LogoRequest, NetworkResponse(200, <<"v1">>)), tasks) = 1
    /\ CopiesIn(Resolved(LogoRequest, NetworkResponse(200, <<"v2">>)), tasks) = 1
    /\ StaticEntry(caches, LogoRequest) # Undefined

-----------------------------------------------------------------------------
(* C17 *)

\* what the store called name holds under key k, Undefined for no entry
C17_Entry(cs, name, k) == CacheMatch(cs, name, k)

\* the keys of the requests the handlers run for
C17_Keys == {Key(r) : r \in Requests}

\* every entry of a store is a complete response: one the network served with
\* status 200, never a part of one and never a mixture of two
C17_EntriesAreResponses ==
    \A n \in 1..Len(caches) : \A k \in DOMAIN caches[n].entries :
        /\ caches[n].entries[k] \in NetworkResponses
        /\ caches[n].entries[k].status = 200

\* a lookup returns what the store holds at that moment for the key of the
\* request, or finds no entry; it changes no store
C17_ReadsReturnEntries ==
    \A t \in Running :
        (t.pc \in {"cf_match", "nf_match", "swr_match"} /\ Stepped(t))
        => /\ caches' = caches
           /\ LET stored == IF t.pc = "swr_match"
                            THEN C17_Entry(caches, DYNAMIC_CACHE, Key(t.request))
                            ELSE CachesMatch(caches, Key(t.request))
              IN  \A u \in BagToSet(tasks') :
                     (/\ u.pc = "resolved"
                      /\ u.request = t.request
                      /\ CopiesIn(u, tasks') > CopiesIn(u, tasks))
                     => \/ u.response = stored /\ stored # Undefined
                        \/ stored = Undefined /\ t.pc = "nf_match"

\* a write is started only by a handler for the same request, with the 200
\* response that this handler fetched
C17_WritesAreFetched ==
    \A u \in BagToSet(tasks') :
        (u.pc = "put" /\ CopiesIn(u, tasks') > CopiesIn(u, tasks))
        => /\ u.response \in NetworkResponses
           /\ u.response.status = 200
           /\ \E t \in Running :
                 /\ Stepped(t)
                 /\ t.request = u.request
                 /\ \/ t.pc \in {"cf_open", "nf_open"} /\ t.response = u.response
                    \/ t.pc \in {"swr_wait", "swr_detached"} /\ online

\* a write that completes replaces the entry of its key, whatever was stored,
\* and no other entry; once the worker is installed nothing else changes an entry
C17_LastWriteWins ==
    /\ \A t \in Running :
          (t.pc = "put" /\ Stepped(t))
          => /\ C17_Entry(caches', t.cache, Key(t.request)) = t.response
             /\ \A name \in Current, k \in C17_Keys :
                   (name # t.cache \/ k # Key(t.request))
                   => C17_Entry(caches', name, k) = C17_Entry(caches, name, k)
    /\ \A name \in Current, k \in C17_Keys :
          C17_Entry(caches', name, k) # C17_Entry(caches, name, k)
          => \/ lifecycle = "installing"
             \/ \E t \in Running :
                   /\ t = Put(t.request, name, C17_Entry(caches', name, k))
                   /\ Key(t.request) = k
                   /\ Stepped(t)

\* C17: with handlers of the same key interleaved at their lookups, fetches and
\* un-awaited writes, every lookup returns no entry or a complete response
\* written for the key, and each completed write replaces the entry, so that
\* after the last write the store holds its response, a 200 response that one
\* of the handlers fetched
C17_Interleaved ==
    /\ []C17_EntriesAreResponses
    /\ [][C17_ReadsReturnEntries /\ C17_WritesAreFetched /\ C17_LastWriteWins]_vars

\* C17 witness: two networkFirst handlers for the same page fetched different
\* 200 responses and both writes completed; the store holds one of the two
C17_Witness ==
    /\ events = 2
    /\ BagCardinality(tasks) = 2
    /\ CopiesIn(Resolved(UnknownRequest, NetworkResponse(200, <<"v1">>)), tasks) = 1
    /\ CopiesIn(Resolved(UnknownRequest, NetworkResponse(200, <<"v2">>)), tasks) = 1
    /\ DynamicEntry(caches, UnknownRequest) \in
          {NetworkResponse(200, <<"v1">>), NetworkResponse(200, <<"v2">>)}

-----------------------------------------------------------------------------
(* C18 *)

\* the classifier rates the key static-asset
C18_Static(k) == isStaticAsset([url |-> k])

\* the static store holds only keys rated static-asset, the dynamic store only
\* keys not rated so; hence no key is in both
C18_Partition ==
    /\ \A k \in DOMAIN Entries(caches, STATIC_CACHE) : C18_Static(k)
    /\ \A k \in DOMAIN Entries(caches, DYNAMIC_CACHE) : ~C18_Static(k)
    /\ DOMAIN Entries(caches, STATIC_CACHE) \cap DOMAIN Entries(caches, DYNAMIC_CACHE) = {}

\* while the worker handles requests the origin has no cache but the two stores
C18_OnlyCurrentStores ==
    lifecycle = "activated" => CachesKeys(caches) \subseteq Current

\* every handler runs the strategy of its key's rating: cacheFirst for a
\* static-asset key and no other, and writes go to the store of that rating
C18_WritesFollowRating ==
    \A t \in Running :
        /\ t.pc \in {"cf_match", "cf_fetch", "cf_open"} => C18_Static(Key(t.request))
        /\ t.pc \in {"nf_fetch", "nf_open", "nf_match",
                     "swr_open", "swr_match", "swr_wait", "swr_detached"}
           => ~C18_Static(Key(t.request))
        /\ t.pc = "put" => (t.cache = STATIC_CACHE <=> C18_Static(Key(t.request)))
        /\ t.pc = "put" => t.cache \in Current

\* caches.match(request), which searches every cache, finds in cacheFirst only
\* an entry of the static store and in the fallback of networkFirst only an
\* entry of the dynamic store
C18_LookupsFindOwnStore ==
    \A t \in Running :
        (/\ t.pc \in {"cf_match", "nf_match"}
         /\ Stepped(t)
         /\ CachesMatch(caches, Key(t.request)) # Undefined)
        => IF t.pc = "cf_match"
           THEN /\ CachesMatch(caches, Key(t.request)) = StaticEntry(caches, t.request)
                /\ DynamicEntry(caches, t.request) = Undefined
           ELSE /\ CachesMatch(caches, Key(t.request)) = DynamicEntry(caches, t.request)
                /\ StaticEntry(caches, t.request) = Undefined

\* C18: after any install, activation and handled requests the static store
\* holds only keys rated static-asset and the dynamic store only keys not
\* rated so, so no request is in both, and the store-agnostic lookups of
\* cacheFirst and of networkFirst's fallback return only entries of the static
\* and of the dynamic store respectively
C18_StoresPartitioned ==
    /\ [](C18_Partition /\ C18_OnlyCurrentStores /\ C18_WritesFollowRating)
    /\ [][C18_LookupsFindOwnStore]_vars

\* C18 witness: a cacheFirst handler has stored the logo and a networkFirst
\* handler an unknown page, each in the store of its rating
C18_Witness ==
    /\ events = 2
    /\ BagCardinality(tasks) = 2
    /\ StaticEntry(caches, LogoRequest) # Undefined
    /\ DynamicEntry(caches, UnknownRequest) # Undefined
    /\ Cardinality(DOMAIN Entries(caches, STATIC_CACHE)) > 1

-----------------------------------------------------------------------------
(* C19 *)

\* no modal is removed from the document twice, and no onClose runs twice
C19_AtMostOnce ==
    \A m \in 1..Len(modals) :
        /\ modals[m].removed <= 1
        /\ modals[m].closed <= 1
        /\ modals[m].closed <= modals[m].removed

\* C19: whatever the close triggers and however often they are repeated
\* before the removal timer fires, removeChild is never called on a modal that
\* is already removed, every modal is removed at most once, and its onClose
\* runs at most once
C19_RemovedOnce ==
    \A m \in 1..Len(modals) :
        /\ modals[m].thrown = 0
        /\ modals[m].removed <= 1
        /\ modals[m].closed <= 1

====
